---- MODULE Spec2Model ----
(***************************************************************************)
(* A model of the twilio-sms-chat servers.                                 *)
(*                                                                         *)
(*   impl = "sqlite"  src/index.js          (SQLite table `messages`)      *)
(*   impl = "mem0"    src/unnamed/part_000  (in-memory array `messages`)   *)
(*   impl = "mem1"    src/unnamed/part_001  (in-memory array `messages`)   *)
(*                                                                         *)
(* One of the three servers is started (Init chooses which); every HTTP    *)
(* handler is an action, split at its `await`s: the part of an async       *)
(* handler between two awaits runs without interleaving on the event loop. *)
(*                                                                         *)
(* A JavaScript string is a sequence of its UTF-8 byte values, so that     *)
(* String.prototype.trim and SQLite's BINARY collation are computed, not   *)
(* assumed.  Message bodies are never inspected by the code beyond         *)
(* emptiness and are TLA+ strings.  An optional request field is a record  *)
(* [present, val].                                                         *)
(***************************************************************************)
EXTENDS Integers, Sequences, FiniteSets, TLC

\* Number of HTTP requests accepted in one behaviour.
MaxReqs == 2
\* Largest value of the millisecond clock (Date.now()).
MaxClock == 1

VARIABLES
    impl,       \* which server file is running
    env,        \* process.env: the TWILIO_* settings
    messages,   \* the store: table rows in rowid order / the array
    now,        \* Date.now(), in milliseconds
    reqs        \* every request accepted so far, with its handler's position

vars == <<impl, env, messages, now, reqs>>

----------------------------------------------------------------------------
(* Strings *)

Absent == [present |-> FALSE, val |-> <<>>]
Str(s) == [present |-> TRUE, val |-> s]
NoBody == [present |-> FALSE, val |-> ""]
Txt(s) == [present |-> TRUE, val |-> s]

\* The characters String.prototype.trim removes, among the bytes used here.
IsSpace(c) == c \in {9, 10, 11, 12, 13, 32}

RECURSIVE TrimLeft(_)
TrimLeft(s) ==
    IF s = <<>> THEN s
    ELSE IF IsSpace(Head(s)) THEN TrimLeft(Tail(s)) ELSE s

RECURSIVE TrimRight(_)
TrimRight(s) ==
    IF s = <<>> THEN s
    ELSE IF IsSpace(s[Len(s)]) THEN TrimRight(SubSeq(s, 1, Len(s) - 1)) ELSE s

\* s.replace(/^\s|\s$/g, ""): at most one character off each end.
TrimOnce(s) ==
    LET l == IF s # <<>> /\ IsSpace(Head(s)) THEN Tail(s) ELSE s
    IN  IF l # <<>> /\ IsSpace(l[Len(l)]) THEN SubSeq(l, 1, Len(l) - 1) ELSE l

\* String.prototype.trim
Trim(s) == TrimRight(TrimLeft(s))

\* (p || "")
OrEmpty(p) == IF p.present /\ p.val # <<>> THEN p.val ELSE <<>>

\* (b || "")
BodyOrEmpty(b) == IF b.present THEN b.val ELSE ""

\* function normalizePhone(p) { return (p || "").toString().trim(); }
normalizePhone(p) == Trim(OrEmpty(p))

\* Byte-wise order of two strings (SQLite's BINARY collation, memcmp).
RECURSIVE LexLess(_, _)
LexLess(a, b) ==
    IF b = <<>> THEN FALSE
    ELSE IF a = <<>> THEN TRUE
    ELSE IF Head(a) # Head(b) THEN Head(a) < Head(b)
    ELSE LexLess(Tail(a), Tail(b))

LexLeq(a, b) == a = b \/ LexLess(a, b)

\* ORDER BY phone ASC over a set of distinct strings.
RECURSIVE OrderByPhone(_)
OrderByPhone(S) ==
    IF S = {} THEN <<>>
    ELSE LET m == CHOOSE x \in S : \A y \in S : LexLeq(x, y)
         IN  <<m>> \o OrderByPhone(S \ {m})

Range(s) == {s[i] : i \in 1..Len(s)}

----------------------------------------------------------------------------
(* Records, requests, responses *)

\* "in_" + Date.now() + "_" + Math.random()..., "dbg_" + Date.now(),
\* "out_" + Date.now(), and the provider's sid.  `n` stands for the random
\* suffix (the request's own number: two draws of Math.random() are taken to
\* differ) or the serial number of a provider sid; it is 0 where the id has
\* no such part.
Id(pre, t, n) == [pre |-> pre, t |-> t, n |-> n]
NoId == Id("none", 0, 0)

\* A row of the table.  `req` is a history field, not a column: the number of
\* the request whose handler built the record.
Row(id, from, to, body, direction, at, req) ==
    [id |-> id, from |-> from, to |-> to, body |-> body,
     direction |-> direction, at |-> at, req |-> req]

NoMsg == Row(NoId, <<>>, <<>>, "", "none", 0, 0)

\* The columns of a row (the record as the program sees it).
Cols(r) == [id |-> r.id, from |-> r.from, to |-> r.to, body |-> r.body,
            direction |-> r.direction, at |-> r.at]

\* An HTTP response: status, what the body is, and the sid it carries.
Resp(status, kind, sid) == [status |-> status, kind |-> kind, sid |-> sid]

\* The media fields of a webhook: NumMedia and MediaUrl0, MediaUrl1, ... (the
\* fields present are MediaUrl0 .. MediaUrl(Len(urls)-1)).
Media(num, urls) == [num |-> num, urls |-> urls]
NoNum == [present |-> FALSE, val |-> 0]
Num(n) == [present |-> TRUE, val |-> n]
NoUrl == [present |-> FALSE, val |-> ""]

\* A request as accepted: its route and fields, the position of its handler
\* (pc), the record the handler has built, the sid the provider returned, and
\* the responses sent for it.  `create` is a history field: whether the
\* handler has called client.messages.create ("called") and how the call
\* ended ("resolved", "rejected"); "none" while it has not.  `put` is the
\* same for the write of the record to the store (insertMessage, push);
\* `media` is the media fields of a webhook of part_001.  For a query, `seen`
\* is a history field, the requests whose record had been written when the
\* query arrived, and `rows` the rows it was answered with.
Req(route, from, to, body) ==
    [route |-> route, from |-> from, to |-> to, body |-> body,
     pc |-> "start", msg |-> NoMsg, sid |-> NoId, create |-> "none",
     put |-> "none", media |-> Media(NoNum, <<>>), seen |-> {}, rows |-> <<>>,
     resp |-> <<>>]

Rid == 1..Len(reqs)

\* res.send / res.json / res.sendStatus: the response goes out and the
\* handler is finished.
Respond(r, rsp) ==
    [reqs EXCEPT ![r].pc = "done", ![r].resp = Append(@, rsp)]

----------------------------------------------------------------------------
(* src/index.js: the store and its projections *)

\* An insert that resolves without the row having reached the table.
insertLost(rows, msg) == rows

\* INSERT INTO without OR REPLACE on a table without the PRIMARY KEY.
insertPlain(rows, msg) == rows \o <<msg>>

\* INSERT OR REPLACE INTO messages ...: id is the PRIMARY KEY, so a row with
\* the same id is deleted and the new row is given the next rowid.
insertMessage(rows, msg) ==
    SelectSeq(rows, LAMBDA r : r.id # msg.id) \o <<msg>>

\* SELECT DISTINCT from_phone ... WHERE direction='inbound' UNION
\* SELECT DISTINCT to_phone ... WHERE direction='outbound' ORDER BY phone ASC
listContacts(rows) ==
    OrderByPhone({r.from : r \in {x \in Range(rows) : x.direction = "inbound"}}
          \cup {r.to : r \in {x \in Range(rows) : x.direction = "outbound"}})

\* ORDER BY at ASC as SQLite's sorter does it: rows are placed by `at`, and a
\* row is placed after the rows of equal `at` that reached the sorter before.
RECURSIVE OrderByAt(_)
OrderByAt(rows) ==
    IF rows = <<>> THEN <<>>
    ELSE LET n    == Len(rows)
             init == OrderByAt(SubSeq(rows, 1, n - 1))
             r    == rows[n]
             k    == Cardinality({i \in 1..Len(init) : init[i].at <= r.at})
         IN  SubSeq(init, 1, k) \o <<r>> \o SubSeq(init, k + 1, Len(init))

\* WHERE from_phone = ? OR to_phone = ?, which SQLite answers from the two
\* indexes (MULTI-INDEX OR): the rows whose from_phone matches, in rowid
\* order, then the rows not yet seen whose to_phone matches, in rowid order.
\* SQL leaves the order of rows of equal `at` open; this is the order the
\* plan for this schema gives.
WhereParty(rows, p) ==
    SelectSeq(rows, LAMBDA r : r.from = p)
        \o SelectSeq(rows, LAMBDA r : r.to = p /\ r.from # p)

getThread(rows, phone) ==
    LET p == normalizePhone(phone)
    IN  IF p = <<>> THEN <<>> ELSE OrderByAt(WhereParty(rows, p))

\* ORDER BY at DESC, which SQLite answers by walking idx_messages_at
\* backwards: `at` descending, rows of equal `at` in descending rowid order.
\* (`at` is a TEXT column holding Date.now(); every value has 13 digits, so
\* the text order is the numeric order.)
Reverse(rows) == [i \in 1..Len(rows) |-> rows[Len(rows) + 1 - i]]
OrderByAtDesc(rows) == Reverse(OrderByAt(rows))

\* LIMIT n
Limit(rows, n) == SubSeq(rows, 1, IF n < Len(rows) THEN n ELSE Len(rows))

\* LIMIT 200
LimitRows == 200

\* A query that takes the first n rows in ascending order of `at`.
oldestMessages(rows, n) == Limit(OrderByAt(rows), n)

\* SELECT ... ORDER BY at DESC LIMIT n, then rows.reverse()
recentMessages(rows, n) == Reverse(Limit(OrderByAtDesc(rows), n))

\* app.get("/api/messages"): without a phone the last 200, else the thread.
ApiMessages(rows, phone) ==
    IF OrEmpty(phone) = <<>> THEN recentMessages(rows, LimitRows)
    ELSE getThread(rows, phone)

----------------------------------------------------------------------------
(* The environment *)

\* process.env: whether TWILIO_ACCOUNT_SID and TWILIO_AUTH_TOKEN are set, and
\* TWILIO_PHONE_NUMBER.
Env(sid, token, phone) == [sid |-> sid, token |-> token, phone |-> phone]

\* The settings the process may be started with: the system's number "2", or
\* no TWILIO_PHONE_NUMBER.
Envs == { Env(TRUE, TRUE, Str(<<50>>)),
          Env(TRUE, TRUE, Absent) }

\* Settings without TWILIO_ACCOUNT_SID or without TWILIO_AUTH_TOKEN.  Only
\* index.js runs with them: part_000 and part_001 call twilio(sid, token) when
\* the module is loaded, which throws without them, and the server is not up.
EnvsNoCredentials == { Env(FALSE, TRUE, Str(<<50>>)),
                       Env(TRUE, FALSE, Str(<<50>>)) }

\* Request fields.  "1" is a correspondent, " 1" the same number as a query
\* string or form field delivers it with a leading blank ("+1..." in a query
\* string decodes to " 1..."), " " a blank field.
\* POST /sms: <<From, To, Body>>
SmsInputs == { <<Str(<<32, 49>>), Str(<<50>>), Txt("hi")>>,
               <<Str(<<49>>), Str(<<50>>), NoBody>>,
               <<Absent, Str(<<50>>), Txt("hi")>> }
\* POST /api/send, POST /send: <<to, body>>
SendInputs == { <<Absent, Txt("hi")>>,
                <<Str(<<32>>), Txt("hi")>>,
                <<Str(<<32, 49>>), NoBody>>,
                <<Str(<<32, 49>>), Txt("hi")>> }
\* GET /debug/add: <<from, to, body>>
DebugInputs == { <<Absent, Absent, NoBody>>,
                 <<Str(<<32, 49>>), Absent, NoBody>> }

\* POST /sms of part_001: <<From, Body, media>>
MediaSmsInputs == { <<Str(<<49>>), Txt("hi"), Media(NoNum, <<>>)>>,
                    <<Str(<<49>>), NoBody, Media(Num(2), <<"u0">>)>>,
                    <<Str(<<32, 49>>), NoBody, Media(Num(1), <<"u0", "u1">>)>> }

\* GET /api/messages: phone
QueryInputs == { Absent, Str(<<32, 49>>) }

\* The phones a thread can be asked for.
QueryPhones == {Absent, Str(<<32>>), Str(<<49>>), Str(<<32, 49>>), Str(<<50>>)}

\* Values normalizePhone is handed: the above, and strings with more than one
\* blank, or a tab and a newline, around the number.
NormInputs == QueryPhones \cup { Str(<<32, 32, 49, 32>>), Str(<<9, 49, 32, 10>>),
                                 Str(<<49, 32, 49>>), Str(<<32, 32>>) }

\* client.messages.create is the provider's: it may resolve or reject.  The
\* provider needs a sender and a destination, and rejects a message without.
ProviderMayAccept(from, to) ==
    /\ normalizePhone(from) # <<>>
    /\ normalizePhone(to) # <<>>

----------------------------------------------------------------------------
(* src/index.js: the handlers *)

\* app.post("/sms"), up to `await insertMessage(...)`.
PostSms(From, To, Body) ==
    /\ impl = "sqlite"
    /\ Len(reqs) < MaxReqs
    /\ LET r   == Len(reqs) + 1
           msg == Row(Id("in", now, r), normalizePhone(From), normalizePhone(To),
                      BodyOrEmpty(Body), "inbound", now, r)
       IN  reqs' = Append(reqs, [Req("sms", From, To, Body) EXCEPT
                                    !.pc = "insert", !.msg = msg])
    /\ UNCHANGED <<impl, env, messages, now>>

\* A catch block that reports the failure as such.
SmsCatchError == Resp(500, "error", NoId)

\* The response of the catch block of app.post("/sms"): TwiML, status 200.
SmsCatchResponse == Resp(200, "twiml", NoId)

\* insertMessage resolved: the row is in the table, the TwiML reply goes out.
SmsInserted(r) ==
    /\ impl = "sqlite"
    /\ reqs[r].route = "sms" /\ reqs[r].pc = "insert"
    /\ messages' = insertMessage(messages, reqs[r].msg)
    /\ reqs' = [Respond(r, Resp(200, "twiml", NoId)) EXCEPT ![r].put = "resolved"]
    /\ UNCHANGED <<impl, env, now>>

\* insertMessage rejected (the disk, a locked database): the catch block.
SmsInsertFailed(r) ==
    /\ impl = "sqlite"
    /\ reqs[r].route = "sms" /\ reqs[r].pc = "insert"
    /\ reqs' = [Respond(r, SmsCatchResponse) EXCEPT ![r].put = "rejected"]
    /\ UNCHANGED <<impl, env, messages, now>>

\* !TWILIO_ACCOUNT_SID || !TWILIO_AUTH_TOKEN || !TWILIO_PHONE_NUMBER
MissingEnv(e) == ~e.sid \/ ~e.token \/ OrEmpty(e.phone) = <<>>

\* app.post("/api/send"), up to `await client.messages.create(...)`.
PostApiSend(to, body) ==
    /\ impl = "sqlite"
    /\ Len(reqs) < MaxReqs
    /\ LET r  == Len(reqs) + 1
           t  == normalizePhone(to)
           b  == BodyOrEmpty(body)
           rq == Req("send", Absent, to, body)
       IN  reqs' = Append(reqs,
                IF t = <<>> THEN
                    [rq EXCEPT !.pc = "done", !.resp = <<Resp(400, "missing to", NoId)>>]
                ELSE IF b = "" THEN
                    [rq EXCEPT !.pc = "done", !.resp = <<Resp(400, "missing body", NoId)>>]
                ELSE IF MissingEnv(env) THEN
                    [rq EXCEPT !.pc = "done", !.resp = <<Resp(500, "missing env", NoId)>>]
                ELSE [rq EXCEPT !.pc = "provider", !.create = "called"])
    /\ UNCHANGED <<impl, env, messages, now>>

\* sent.sid || "dbg_" + Date.now(): the fallback id built as the debug seed
\* builds its id.
OutboundIdAsSeed(sid) == IF sid # NoId THEN sid ELSE Id("dbg", now, 0)

\* sent.sid || "out_" + Date.now()
OutboundId(sid) == IF sid # NoId THEN sid ELSE Id("out", now, 0)

\* client.messages.create resolved, with a sid or (hasSid = FALSE) without:
\* the record is built and handed to insertMessage.
ApiSendSent(r, hasSid) ==
    /\ impl = "sqlite"
    /\ reqs[r].route = "send" /\ reqs[r].pc = "provider"
    /\ ProviderMayAccept(env.phone, reqs[r].to)
    /\ LET sid == IF hasSid THEN Id("SM", 0, r) ELSE NoId
           msg == Row(OutboundId(sid), normalizePhone(env.phone),
                      normalizePhone(reqs[r].to), BodyOrEmpty(reqs[r].body),
                      "outbound", now, r)
       IN  reqs' = [reqs EXCEPT ![r].pc = "insert", ![r].msg = msg, ![r].sid = sid,
                                ![r].create = "resolved"]
    /\ UNCHANGED <<impl, env, messages, now>>

\* A catch block that keeps the message as an outbound draft before it
\* answers.
ApiSendRejectedDraft(r) ==
    /\ impl = "sqlite"
    /\ reqs[r].route = "send" /\ reqs[r].pc = "provider"
    /\ messages' = insertMessage(messages,
                       Row(Id("out", now, 0), normalizePhone(env.phone),
                           normalizePhone(reqs[r].to), BodyOrEmpty(reqs[r].body),
                           "outbound", now, r))
    /\ reqs' = [Respond(r, Resp(500, "error", NoId)) EXCEPT ![r].create = "rejected"]
    /\ UNCHANGED <<impl, env, now>>

\* client.messages.create rejected: the catch block, nothing is inserted.
ApiSendRejected(r) ==
    /\ impl = "sqlite"
    /\ reqs[r].route = "send" /\ reqs[r].pc = "provider"
    /\ reqs' = [Respond(r, Resp(500, "error", NoId)) EXCEPT ![r].create = "rejected"]
    /\ UNCHANGED <<impl, env, messages, now>>

\* insertMessage called without await: res.json({ ok: true, sid }) goes out
\* while the write is still to happen.
ApiSendConfirmedUnstored(r) ==
    /\ impl = "sqlite"
    /\ reqs[r].route = "send" /\ reqs[r].pc = "insert"
    /\ reqs' = Respond(r, Resp(200, "sent", reqs[r].sid))
    /\ UNCHANGED <<impl, env, messages, now>>

\* insertMessage resolved: res.json({ ok: true, sid: sent.sid }).
ApiSendInserted(r) ==
    /\ impl = "sqlite"
    /\ reqs[r].route = "send" /\ reqs[r].pc = "insert"
    /\ messages' = insertMessage(messages, reqs[r].msg)
    /\ reqs' = [Respond(r, Resp(200, "sent", reqs[r].sid)) EXCEPT ![r].put = "resolved"]
    /\ UNCHANGED <<impl, env, now>>

\* insertMessage rejected after the provider accepted: the same catch block.
ApiSendInsertFailed(r) ==
    /\ impl = "sqlite"
    /\ reqs[r].route = "send" /\ reqs[r].pc = "insert"
    /\ reqs' = [Respond(r, Resp(500, "error", NoId)) EXCEPT ![r].put = "rejected"]
    /\ UNCHANGED <<impl, env, messages, now>>

\* app.get("/api/messages"), up to `await db.all(...)`: the statement is
\* handed to the database, which runs it later.
GetApiMessages(phone) ==
    /\ impl = "sqlite"
    /\ Len(reqs) < MaxReqs
    /\ reqs' = Append(reqs, [Req("messages", Absent, phone, NoBody) EXCEPT
                                 !.pc = "query",
                                 !.seen = {r \in Rid : reqs[r].put = "resolved"}])
    /\ UNCHANGED <<impl, env, messages, now>>

\* db.all resolved: the SELECT ran as one statement on the table as it is
\* now, res.json({ messages: rows }).
ApiMessagesAnswered(r) ==
    /\ impl = "sqlite"
    /\ reqs[r].route = "messages" /\ reqs[r].pc = "query"
    /\ reqs' = [Respond(r, Resp(200, "messages", NoId)) EXCEPT
                    ![r].rows = ApiMessages(messages, reqs[r].to)]
    /\ UNCHANGED <<impl, env, messages, now>>

\* db.all rejected: the catch block.
ApiMessagesFailed(r) ==
    /\ impl = "sqlite"
    /\ reqs[r].route = "messages" /\ reqs[r].pc = "query"
    /\ reqs' = Respond(r, Resp(500, "error", NoId))
    /\ UNCHANGED <<impl, env, messages, now>>

\* "+10000000000" and "+19999999999"
DebugDefaultFrom == <<43, 49, 48, 48, 48, 48, 48, 48, 48, 48, 48, 48>>
DebugDefaultTo == <<43, 49, 57, 57, 57, 57, 57, 57, 57, 57, 57, 57>>

\* (req.query.from || "+10000000000").toString()
DebugFrom(from) == IF OrEmpty(from) # <<>> THEN from.val ELSE DebugDefaultFrom

\* (req.query.to || process.env.TWILIO_PHONE_NUMBER || "+19999999999").toString()
DebugTo(to) ==
    IF OrEmpty(to) # <<>> THEN to.val
    ELSE IF OrEmpty(env.phone) # <<>> THEN env.phone.val
    ELSE DebugDefaultTo

\* (req.query.body || "Test inbound message").toString()
DebugBody(body) == IF BodyOrEmpty(body) # "" THEN body.val ELSE "Test inbound message"

\* app.get("/debug/add"), up to `await insertMessage(...)`.
DebugAdd(from, to, body) ==
    /\ impl = "sqlite"
    /\ Len(reqs) < MaxReqs
    /\ LET r   == Len(reqs) + 1
           msg == Row(Id("dbg", now, 0), DebugFrom(from), DebugTo(to),
                      DebugBody(body), "inbound", now, r)
       IN  reqs' = Append(reqs, [Req("debug", from, to, body) EXCEPT
                                    !.pc = "insert", !.msg = msg])
    /\ UNCHANGED <<impl, env, messages, now>>

DebugInserted(r) ==
    /\ impl = "sqlite"
    /\ reqs[r].route = "debug" /\ reqs[r].pc = "insert"
    /\ messages' = insertMessage(messages, reqs[r].msg)
    /\ reqs' = [Respond(r, Resp(200, "added", NoId)) EXCEPT ![r].put = "resolved"]
    /\ UNCHANGED <<impl, env, now>>

DebugInsertFailed(r) ==
    /\ impl = "sqlite"
    /\ reqs[r].route = "debug" /\ reqs[r].pc = "insert"
    /\ reqs' = [Respond(r, Resp(500, "error", NoId)) EXCEPT ![r].put = "rejected"]
    /\ UNCHANGED <<impl, env, messages, now>>

\* A millisecond passes.
Tick ==
    /\ now < MaxClock
    /\ now' = now + 1
    /\ UNCHANGED <<impl, env, messages, reqs>>

----------------------------------------------------------------------------
(* src/unnamed/part_000: the in-memory server *)

\* { from, to, body, direction, date } as pushed; `req` as in Row.
Row0(from, to, body, direction, date, req) ==
    [from |-> from, to |-> to, body |-> body,
     direction |-> direction, date |-> date, req |-> req]

\* messages.push(m)
push(rows, m) == Append(rows, m)

\* app.post("/sms"): the fields are stored as received, the reply goes out.
P0PostSms(From, To, Body) ==
    /\ impl = "mem0"
    /\ Len(reqs) < MaxReqs
    /\ LET r == Len(reqs) + 1
       IN  /\ messages' = push(messages, Row0(From, To, Body, "inbound", now, r))
           /\ reqs' = Append(reqs, [Req("sms", From, To, Body) EXCEPT
                                     !.pc = "done", !.put = "resolved",
                                     !.resp = <<Resp(200, "twiml", NoId)>>])
    /\ UNCHANGED <<impl, env, now>>

\* app.post("/send"), up to `await client.messages.create(...)`: the fields
\* are passed on unchecked.
P0PostSend(to, body) ==
    /\ impl = "mem0"
    /\ Len(reqs) < MaxReqs
    /\ reqs' = Append(reqs, [Req("send", Absent, to, body) EXCEPT
                                 !.pc = "provider", !.create = "called"])
    /\ UNCHANGED <<impl, env, messages, now>>

\* create resolved: the record is pushed, res.json({ success: true, sid }).
P0SendSent(r) ==
    /\ impl = "mem0"
    /\ reqs[r].route = "send" /\ reqs[r].pc = "provider"
    /\ ProviderMayAccept(env.phone, reqs[r].to)
    /\ messages' = push(messages, Row0(env.phone, reqs[r].to, reqs[r].body,
                                       "outbound", now, r))
    /\ reqs' = [Respond(r, Resp(200, "sent", Id("SM", 0, r))) EXCEPT
                    ![r].sid = Id("SM", 0, r), ![r].create = "resolved",
                    ![r].put = "resolved"]
    /\ UNCHANGED <<impl, env, now>>

\* create rejected or threw: the catch block.
P0SendRejected(r) ==
    /\ impl = "mem0"
    /\ reqs[r].route = "send" /\ reqs[r].pc = "provider"
    /\ reqs' = [Respond(r, Resp(500, "error", NoId)) EXCEPT ![r].create = "rejected"]
    /\ UNCHANGED <<impl, env, messages, now>>

----------------------------------------------------------------------------
(* src/unnamed/part_001: the in-memory server with media *)

\* { from, body, mediaUrls, direction, at } as pushed; `req` as in Row.
Row1(from, body, mediaUrls, direction, at, req) ==
    [from |-> from, body |-> body, mediaUrls |-> mediaUrls,
     direction |-> direction, at |-> at, req |-> req]

\* parseInt(req.body.NumMedia || "0", 10)
NumMedia(m) == IF m.num.present THEN m.num.val ELSE 0

\* req.body[`MediaUrl${i}`]: undefined when the field is not there.
MediaUrl(m, i) == IF i + 1 <= Len(m.urls) THEN Txt(m.urls[i + 1]) ELSE NoUrl

\* for (let i = 0; i < numMedia; i++) mediaUrls.push(req.body[`MediaUrl${i}`])
MediaUrls(m) == [i \in 1..NumMedia(m) |-> MediaUrl(m, i - 1)]

\* app.post("/sms")
P1PostSms(From, Body, m) ==
    /\ impl = "mem1"
    /\ Len(reqs) < MaxReqs
    /\ LET r == Len(reqs) + 1
       IN  /\ messages' = push(messages, Row1(From, BodyOrEmpty(Body), MediaUrls(m),
                                              "inbound", now, r))
           /\ reqs' = Append(reqs, [Req("sms", From, Absent, Body) EXCEPT
                                     !.pc = "done", !.put = "resolved",
                                     !.media = m,
                                     !.resp = <<Resp(200, "twiml", NoId)>>])
    /\ UNCHANGED <<impl, env, now>>

\* !to || !body
P1Missing(to, body) == OrEmpty(to) = <<>> \/ BodyOrEmpty(body) = ""

\* app.post("/send"), up to `await client.messages.create(...)`.
P1PostSend(to, body) ==
    /\ impl = "mem1"
    /\ Len(reqs) < MaxReqs
    /\ LET rq == Req("send", Absent, to, body)
       IN  reqs' = Append(reqs,
                IF P1Missing(to, body)
                THEN [rq EXCEPT !.pc = "done", !.resp = <<Resp(400, "missing to/body", NoId)>>]
                ELSE [rq EXCEPT !.pc = "provider", !.create = "called"])
    /\ UNCHANGED <<impl, env, messages, now>>

\* create resolved: the record is pushed with the destination as its `from`,
\* res.sendStatus(200).
P1SendSent(r) ==
    /\ impl = "mem1"
    /\ reqs[r].route = "send" /\ reqs[r].pc = "provider"
    /\ ProviderMayAccept(env.phone, reqs[r].to)
    /\ messages' = push(messages, Row1(reqs[r].to, reqs[r].body.val, <<>>,
                                       "outbound", now, r))
    /\ reqs' = [Respond(r, Resp(200, "OK", NoId)) EXCEPT ![r].create = "resolved",
                                                        ![r].put = "resolved"]
    /\ UNCHANGED <<impl, env, now>>

\* create rejected: the catch block.
P1SendRejected(r) ==
    /\ impl = "mem1"
    /\ reqs[r].route = "send" /\ reqs[r].pc = "provider"
    /\ reqs' = [Respond(r, Resp(500, "error", NoId)) EXCEPT ![r].create = "rejected"]
    /\ UNCHANGED <<impl, env, messages, now>>

----------------------------------------------------------------------------
(* The specification *)

Init ==
    /\ impl \in {"sqlite", "mem0", "mem1"}
    /\ env \in Envs
    /\ messages = <<>>
    /\ now = 0
    /\ reqs = <<>>

Next ==
    \/ \E i \in SmsInputs : PostSms(i[1], i[2], i[3])
    \/ \E r \in Rid : SmsInserted(r)
    \/ \E r \in Rid : SmsInsertFailed(r)
    \/ \E i \in SendInputs : PostApiSend(i[1], i[2])
    \/ \E r \in Rid, hasSid \in BOOLEAN : ApiSendSent(r, hasSid)
    \/ \E r \in Rid : ApiSendRejected(r)
    \/ \E r \in Rid : ApiSendInserted(r)
    \/ \E r \in Rid : ApiSendInsertFailed(r)
    \/ \E i \in DebugInputs : DebugAdd(i[1], i[2], i[3])
    \/ \E r \in Rid : DebugInserted(r)
    \/ \E r \in Rid : DebugInsertFailed(r)
    \/ \E i \in SmsInputs : P0PostSms(i[1], i[2], i[3])
    \/ \E i \in SendInputs : P0PostSend(i[1], i[2])
    \/ \E r \in Rid : P0SendSent(r)
    \/ \E r \in Rid : P0SendRejected(r)
    \/ \E i \in MediaSmsInputs : P1PostSms(i[1], i[2], i[3])
    \/ \E i \in SendInputs : P1PostSend(i[1], i[2])
    \/ \E r \in Rid : P1SendSent(r)
    \/ \E r \in Rid : P1SendRejected(r)
    \/ Tick

Spec == Init /\ [][Next]_vars

\* The servers with the read route of index.js taken as requests of its own
\* (a query changes nothing in the store), and index.js started also without
\* the provider's credentials.
FullInit ==
    /\ impl \in {"sqlite", "mem0", "mem1"}
    /\ env \in Envs \cup (IF impl = "sqlite" THEN EnvsNoCredentials ELSE {})
    /\ messages = <<>>
    /\ now = 0
    /\ reqs = <<>>

FullNext ==
    \/ Next
    \/ \E p \in QueryInputs : GetApiMessages(p)
    \/ \E r \in Rid : ApiMessagesAnswered(r)
    \/ \E r \in Rid : ApiMessagesFailed(r)

FullSpec == FullInit /\ [][FullNext]_vars

\* The event loop runs the continuation of every settled promise: the insert
\* of a webhook request resolves or rejects, and the handler goes on.
SmsSettled(r) == r \in Rid /\ (SmsInserted(r) \/ SmsInsertFailed(r))

FairSpec ==
    /\ Spec
    /\ \A r \in 1..MaxReqs : WF_vars(SmsSettled(r))

----------------------------------------------------------------------------
(* Properties *)

Done(r) == reqs[r].pc = "done"

\* The rows request r has in the store.
RowsOf(r) == {i \in 1..Len(messages) : messages[i].req = r}

\* The positions of the rows with a given id.
WithId(rows, id) == {i \in 1..Len(rows) : rows[i].id = id}

\* The records handed to insertMessage so far.
Built == {reqs[r].msg : r \in {x \in Rid : reqs[x].msg # NoMsg}}

\* C1. Idempotent upsert (index.js).  No two rows of the table share an id; and
\* for any two records m1, m2 with the same id that handlers have built,
\* insertMessage(m1) followed by insertMessage(m2), from the present table,
\* leaves exactly one row with that id, equal to m2 in every column.
C1_IdempotentUpsert ==
    impl = "sqlite" =>
        /\ \A i, j \in 1..Len(messages) :
               messages[i].id = messages[j].id => i = j
        /\ \A m1, m2 \in Built :
               m1.id = m2.id =>
                   LET after == insertMessage(insertMessage(messages, m1), m2)
                       hits  == WithId(after, m2.id)
                   IN  /\ Cardinality(hits) = 1
                       /\ \A i \in hits : Cols(after[i]) = Cols(m2)

\* Two requests built different records with the same id, both inserts were
\* carried out, and the table holds one row.
C1_Witness ==
    /\ impl = "sqlite"
    /\ \E r1, r2 \in Rid :
          /\ r1 # r2
          /\ Done(r1) /\ Done(r2)
          /\ reqs[r1].resp[1].status = 200 /\ reqs[r2].resp[1].status = 200
          /\ reqs[r1].msg.id = reqs[r2].msg.id
          /\ Cols(reqs[r1].msg) # Cols(reqs[r2].msg)
          /\ Len(messages) = 1

\* The place of a row in the table: its rank by rowid, which is the order in
\* which the rows now stored were inserted.
Pos(row) == CHOOSE i \in 1..Len(messages) : messages[i] = row

\* C2. Thread ordering (index.js).  getThread(phone) is sorted ascending by
\* `at`, and rows of equal `at` appear in the order in which they were
\* inserted.
C2_ThreadOrdering ==
    impl = "sqlite" =>
        \A q \in QueryPhones :
            LET t == getThread(messages, q)
            IN  \A i, j \in 1..Len(t) :
                    i < j => /\ t[i].at <= t[j].at
                             /\ t[i].at = t[j].at => Pos(t[i]) < Pos(t[j])

\* The part of C2 that the code keeps: the thread is ascending by `at`.
C2_AscendingByAt ==
    impl = "sqlite" =>
        \A q \in QueryPhones :
            LET t == getThread(messages, q)
            IN  \A i, j \in 1..Len(t) : i < j => t[i].at <= t[j].at

\* normalize(x) of a stored string.
Norm(s) == normalizePhone(Str(s))

\* C3. Thread membership (index.js).  getThread(phone) is empty when the
\* normalized phone is empty, and otherwise holds exactly the stored rows
\* whose normalized `from` or normalized `to` is the normalized phone.
C3_ThreadMembership ==
    impl = "sqlite" =>
        \A q \in QueryPhones :
            LET p == normalizePhone(q)
                t == getThread(messages, q)
            IN  /\ p = <<>> => t = <<>>
                /\ p # <<>> =>
                       Range(t) = {r \in Range(messages) :
                                      Norm(r.from) = p \/ Norm(r.to) = p}

\* The other party of a row: `from` of an inbound row, `to` of an outbound.
OtherParty(r) == IF r.direction = "inbound" THEN r.from ELSE r.to

\* C4. Contact derivation (index.js).  For every stored inbound row from A,
\* listContacts() includes normalize(A); for every stored outbound row to A it
\* includes normalize(A); and the system's own number is listed only when it
\* is the other party of a stored row.
C4_ContactDerivation ==
    impl = "sqlite" =>
        LET c == Range(listContacts(messages))
            B == normalizePhone(env.phone)
        IN  /\ \A r \in Range(messages) : Norm(OtherParty(r)) \in c
            /\ B \in c => \E r \in Range(messages) : Norm(OtherParty(r)) = B

\* C5. Contact list shape (index.js).  listContacts() is strictly ascending in
\* byte order (so it has no duplicates), and each entry is a normalized phone
\* that is the other party of a stored row.
C5_ContactListShape ==
    impl = "sqlite" =>
        LET c == listContacts(messages)
        IN  /\ \A i \in 1..Len(c) - 1 : LexLess(c[i], c[i + 1])
            /\ \A i \in 1..Len(c) :
                   /\ Norm(c[i]) = c[i]
                   /\ \E r \in Range(messages) : OtherParty(r) = c[i]

\* The part of C5 that the code keeps: ascending, no duplicates, other parties
\* of stored rows only.
C5_SortedDistinctDerived ==
    impl = "sqlite" =>
        LET c == listContacts(messages)
        IN  /\ \A i \in 1..Len(c) - 1 : LexLess(c[i], c[i + 1])
            /\ Range(c) = {OtherParty(r) : r \in Range(messages)}

\* C6. No record on transmission failure (all servers).  A send request whose
\* client.messages.create was rejected is answered once, with status 500, and
\* no row of the store was written by it.
C6_NoRecordOnTransmissionFailure ==
    \A r \in Rid :
        reqs[r].create = "rejected" =>
            /\ Len(reqs[r].resp) = 1
            /\ reqs[r].resp[1].status = 500
            /\ RowsOf(r) = {}

\* index.js: the provider rejected a send while the table holds a record of
\* another request.
C6_Witness ==
    /\ impl = "sqlite"
    /\ Len(messages) > 0
    /\ \E r \in Rid : reqs[r].create = "rejected" /\ Done(r)

\* A send request without a destination (absent, or empty once normalized) or
\* without text.
Invalid(r) ==
    /\ reqs[r].route = "send"
    /\ normalizePhone(reqs[r].to) = <<>> \/ BodyOrEmpty(reqs[r].body) = ""

\* C7. Send validation (all servers).  A send request without a destination
\* or without text is answered with status 400, and no row is written for it.
C7_SendValidation ==
    \A r \in Rid :
        Invalid(r) =>
            /\ Done(r) => reqs[r].resp[1].status = 400
            /\ RowsOf(r) = {}

\* The part of C7 that holds: index.js answers such a request 400 before it
\* calls the provider, and writes nothing.
C7_ApiSendValidation ==
    impl = "sqlite" =>
        \A r \in Rid :
            Invalid(r) =>
                /\ Done(r) /\ reqs[r].resp[1].status = 400
                /\ reqs[r].create = "none"
                /\ RowsOf(r) = {}

\* The acknowledgment of a webhook: one response, TwiML with status 200.
Acked(r) ==
    /\ Len(reqs[r].resp) = 1
    /\ reqs[r].resp[1].status = 200
    /\ reqs[r].resp[1].kind = "twiml"

\* C8. Ingress always acknowledges (all servers).  A webhook request is never
\* answered otherwise than by one TwiML response with status 200, and every
\* webhook request is eventually so answered, whether or not its insert
\* succeeded.
C8_IngressAlwaysAcks ==
    /\ [](\A r \in Rid :
             reqs[r].route = "sms" => reqs[r].resp = <<>> \/ Acked(r))
    /\ \A r \in 1..MaxReqs :
          (r \in Rid /\ reqs[r].route = "sms") ~> (r \in Rid /\ Acked(r))

\* index.js: a webhook request whose insert failed (it is finished and has no
\* row) has been acknowledged.
C8_Witness ==
    /\ impl = "sqlite"
    /\ \E r \in Rid :
          /\ reqs[r].route = "sms"
          /\ Done(r)
          /\ RowsOf(r) = {}
          /\ Acked(r)

\* A capacity ceiling for the in-memory store.
Capacity == 1

\* C9. Bounded eviction (part_000, part_001).  The in-memory store never holds
\* more than Capacity records.
C9_BoundedEviction ==
    impl \in {"mem0", "mem1"} => Len(messages) <= Capacity

\* What the in-memory servers do instead: every record pushed stays.
C9_NothingEvicted ==
    impl \in {"mem0", "mem1"} =>
        /\ \A r \in Rid :
               (reqs[r].route = "sms" \/ (Done(r) /\ reqs[r].resp[1].status = 200))
                   => Cardinality(RowsOf(r)) = 1
        /\ Len(messages) =
               Cardinality({r \in Rid : \/ reqs[r].route = "sms"
                                        \/ Done(r) /\ reqs[r].resp[1].status = 200})

\* A send request that was answered with success.
Succeeded(r) ==
    /\ reqs[r].route = "send"
    /\ Done(r)
    /\ reqs[r].resp[1].status = 200

\* The record a successful send request stored.
StoredBy(r) ==
    IF impl = "sqlite" THEN reqs[r].msg
    ELSE messages[CHOOSE i \in 1..Len(messages) : messages[i].req = r]

\* The record has the content C10 gives for request r.
IsOutboundRecordOf(m, r) ==
    /\ m.direction = "outbound"
    /\ "id" \in DOMAIN m
    /\ IF reqs[r].sid # NoId THEN m.id = reqs[r].sid ELSE m.id.pre = "out"
    /\ "to" \in DOMAIN m
    /\ m.from = normalizePhone(env.phone)
    /\ m.to = normalizePhone(reqs[r].to)
    /\ m.body = BodyOrEmpty(reqs[r].body)

\* C10. Outbound record content (all servers).  A send request answered with
\* success stored one record: direction outbound, id the provider's sid (a
\* generated id only if there is none), from the normalized system number, to
\* the normalized destination, body the request text.
C10_OutboundRecordContent ==
    \A r \in Rid :
        Succeeded(r) =>
            /\ Cardinality(RowsOf(r)) <= 1
            /\ IsOutboundRecordOf(StoredBy(r), r)

\* The part of C10 that holds: index.js stores such a record, and the table
\* holds one row with its id.
C10_ApiSendRecord ==
    impl = "sqlite" =>
        \A r \in Rid :
            Succeeded(r) =>
                /\ IsOutboundRecordOf(reqs[r].msg, r)
                /\ Cardinality(WithId(messages, reqs[r].msg.id)) = 1


\* C11: in the disk-backed server every stored record's `from` and `to` is
\* non-empty and equal to its own normalization, whichever of the webhook,
\* the send endpoint and the debug seed stored it.
C11_StoredPhonesCanonical ==
    impl = "sqlite" =>
        \A i \in 1..Len(messages) :
            /\ messages[i].from # <<>> /\ Norm(messages[i].from) = messages[i].from
            /\ messages[i].to # <<>> /\ Norm(messages[i].to) = messages[i].to

\* What holds of the webhook and the send endpoint: the phones they store are
\* their own normalization (the webhook stores an empty `from` when the
\* provider sent none).
C11_HandlersNormalize ==
    impl = "sqlite" =>
        \A i \in 1..Len(messages) :
            reqs[messages[i].req].route \in {"sms", "send"} =>
                /\ Norm(messages[i].from) = messages[i].from
                /\ Norm(messages[i].to) = messages[i].to

\* C12: when the provider accepted the message and the write of the outbound
\* record then fails, the caller is answered with a warning that is neither
\* the plain failure nor the plain success: the send is reported as done, the
\* record as not stored.
C12_DegradedSuccessWarning ==
    impl = "sqlite" =>
        \A r \in Rid :
            (/\ reqs[r].route = "send" /\ Done(r)
             /\ reqs[r].create = "resolved" /\ reqs[r].put = "rejected")
            => /\ Len(reqs[r].resp) = 1
               /\ reqs[r].resp[1].status = 200
               /\ reqs[r].resp[1].kind = "sent, not stored"

\* What the code does instead: the failed write is answered exactly as a
\* rejected transmission is.
C12_StoreFailureIsPlainFailure ==
    impl = "sqlite" =>
        \A r \in Rid :
            (reqs[r].route = "send" /\ Done(r) /\ reqs[r].put = "rejected")
            => reqs[r].resp = <<Resp(500, "error", NoId)>>

\* A send request that passes validation in every variant.
Valid(r) ==
    /\ reqs[r].route = "send"
    /\ normalizePhone(reqs[r].to) # <<>>
    /\ BodyOrEmpty(reqs[r].body) # ""

\* C13: while a provider credential is missing, a valid send request never
\* reaches client.messages.create, is answered with a server error, and no
\* record is written for it.
C13_ConfigCheckPrecedesSend ==
    MissingEnv(env) =>
        \A r \in Rid :
            Valid(r) => /\ reqs[r].create = "none"
                        /\ Done(r) /\ reqs[r].resp = <<Resp(500, "missing env", NoId)>>
                        /\ RowsOf(r) = {}

\* What holds of index.js: the claim as stated.
C13_ApiSendConfigCheck ==
    (impl = "sqlite" /\ MissingEnv(env)) =>
        \A r \in Rid :
            Valid(r) => /\ reqs[r].create = "none"
                        /\ Done(r) /\ reqs[r].resp = <<Resp(500, "missing env", NoId)>>
                        /\ RowsOf(r) = {}

\* C14: a query without a phone returns the n records of greatest `at` (all
\* of them when there are fewer), each once, in ascending order of `at`; the
\* route asks for n = 200.
C14_RecentMessages ==
    impl = "sqlite" =>
        /\ ApiMessages(messages, Absent) = recentMessages(messages, LimitRows)
        /\ \A n \in (1..Len(messages)) \cup {LimitRows} :
              LET res  == recentMessages(messages, n)
                  kept == {Pos(res[i]) : i \in 1..Len(res)}
              IN  /\ Len(res) = IF n < Len(messages) THEN n ELSE Len(messages)
                  /\ Range(res) \subseteq Range(messages)
                  /\ Cardinality(kept) = Len(res)
                  /\ \A i, j \in 1..Len(res) : i < j => res[i].at <= res[j].at
                  /\ \A k \in (1..Len(messages)) \ kept :
                        \A i \in 1..Len(res) : messages[k].at <= res[i].at

\* Two records of different `at`, the later one written first, and a limit of
\* one: the later record is the one returned.
C14_Witness ==
    /\ impl = "sqlite"
    /\ Len(messages) = 2
    /\ messages[1].at > messages[2].at
    /\ recentMessages(messages, 1) = <<messages[1]>>
    /\ recentMessages(messages, LimitRows) = <<messages[2], messages[1]>>

\* C15: normalizing twice is normalizing once, for an absent value and for
\* every string: for the values above, for every field a request carried,
\* and for every phone the webhook and the send endpoint stored.
C15_NormalizeIdempotent ==
    /\ \A x \in NormInputs \cup {reqs[r].from : r \in Rid} \cup {reqs[r].to : r \in Rid} :
          Norm(normalizePhone(x)) = normalizePhone(x)
    /\ impl = "sqlite" =>
          \A i \in 1..Len(messages) :
              reqs[messages[i].req].route = "sms" =>
                  /\ messages[i].from = normalizePhone(reqs[messages[i].req].from)
                  /\ Norm(messages[i].from) = messages[i].from

\* A webhook whose From came with a blank around it has been stored, trimmed.
C15_Witness ==
    /\ impl = "sqlite"
    /\ \E i \in 1..Len(messages) :
          LET rq == reqs[messages[i].req]
          IN  /\ rq.route = "sms"
              /\ rq.from.present /\ rq.from.val # messages[i].from
              /\ messages[i].from = normalizePhone(rq.from)
              /\ Norm(messages[i].from) = messages[i].from

\* The request's record has been written to the store.
Stored(r) == reqs[r].put = "resolved"

\* C16: in the disk-backed server every webhook delivery, debug seed and
\* successful send whose record was written has exactly one record in the
\* store, no write replaced or removed the record of another request, and
\* the number of records is the number of those requests.
C16_OneRecordPerDelivery ==
    impl = "sqlite" =>
        /\ \A r \in Rid : Stored(r) => Cardinality(RowsOf(r)) = 1
        /\ \A r1, r2 \in Rid :
              (Stored(r1) /\ Stored(r2) /\ r1 # r2) => reqs[r1].msg.id # reqs[r2].msg.id
        /\ Len(messages) = Cardinality({r \in Rid : Stored(r)})

\* What holds: the records of webhook deliveries and of sends that the
\* provider gave a sid stay, one each; the store holds one record per id.
C16_UniqueIdsKept ==
    impl = "sqlite" =>
        /\ \A r \in Rid :
              (Stored(r) /\ reqs[r].msg.id.pre \in {"in", "SM"})
                  => Cardinality(RowsOf(r)) = 1
        /\ Len(messages) = Cardinality({reqs[r].msg.id : r \in {x \in Rid : Stored(x)}})

\* The fields MediaUrl0 .. MediaUrl(n-1) that the webhook carried, in order.
PresentMedia(m) ==
    LET k == IF NumMedia(m) < Len(m.urls) THEN NumMedia(m) ELSE Len(m.urls)
    IN  [i \in 1..k |-> Txt(m.urls[i])]

\* C17: the mediaUrls stored for a webhook that declares NumMedia = n is the
\* sequence of the fields MediaUrl0 .. MediaUrl(n-1) that are present, in
\* order: an absent field below n leaves no entry, a field from n on is
\* ignored, and the webhook is answered.
C17_MediaUrlExtraction ==
    impl = "mem1" =>
        \A i \in 1..Len(messages) :
            messages[i].direction = "inbound" =>
                LET rq == reqs[messages[i].req]
                IN  /\ messages[i].mediaUrls = PresentMedia(rq.media)
                    /\ \A k \in 1..Len(messages[i].mediaUrls) :
                          messages[i].mediaUrls[k].present
                    /\ Acked(messages[i].req)

\* What part_001 does: one entry for every index below n, undefined where the
\* field is absent; fields from n on are ignored and the webhook is answered.
C17_OneEntryPerIndex ==
    impl = "mem1" =>
        \A i \in 1..Len(messages) :
            messages[i].direction = "inbound" =>
                LET rq == reqs[messages[i].req]
                    u  == messages[i].mediaUrls
                IN  /\ Len(u) = NumMedia(rq.media)
                    /\ \A k \in 1..Len(u) :
                          u[k] = IF k <= Len(rq.media.urls)
                                 THEN Txt(rq.media.urls[k]) ELSE NoUrl
                    /\ Acked(messages[i].req)

\* C18: a record's direction never changes under its id: every record ever
\* written to the disk-backed store under an id, and the record the store
\* holds under it, have one direction, also when a write replaced a record
\* of the same id.
C18_DirectionImmutable ==
    impl = "sqlite" =>
        /\ \A r1, r2 \in Rid :
              (Stored(r1) /\ Stored(r2) /\ reqs[r1].msg.id = reqs[r2].msg.id)
                  => reqs[r1].msg.direction = reqs[r2].msg.direction
        /\ \A i \in 1..Len(messages) : \A r \in Rid :
              (Stored(r) /\ reqs[r].msg.id = messages[i].id)
                  => messages[i].direction = reqs[r].msg.direction

\* Two sends whose records got the same id: the second write replaced the
\* first record, and the record under the id is outbound as before.
C18_Witness ==
    /\ impl = "sqlite"
    /\ \E r1, r2 \in Rid :
          /\ r1 < r2
          /\ Stored(r1) /\ Stored(r2)
          /\ reqs[r1].route = "send" /\ reqs[r2].route = "send"
          /\ reqs[r1].msg.id = reqs[r2].msg.id
          /\ RowsOf(r1) = {}
          /\ \E i \in RowsOf(r2) : messages[i].direction = "outbound"

\* Query q has just been answered with rows.
Answered(q) ==
    /\ q \in Rid
    /\ reqs[q].route = "messages" /\ reqs[q].pc = "query"
    /\ reqs'[q].pc = "done" /\ reqs'[q].resp[1].status = 200

\* The row is one the query asks for.
Asked(row, phone) ==
    \/ OrEmpty(phone) = <<>>
    \/ normalizePhone(phone) # <<>>
         /\ (row.from = normalizePhone(phone) \/ row.to = normalizePhone(phone))

Confirmed(r) ==
    /\ reqs[r].route = "send"
    /\ Len(reqs[r].resp) = 1
    /\ reqs[r].resp[1].status = 200
    /\ reqs[r].resp[1].sid # NoId

\* C20: in the disk-backed server a send request is confirmed, with the
\* provider's message identifier, only once its outbound record is stored;
\* from then on the thread of the destination contains the record, and
\* every thread query for the destination that arrived after the
\* confirmation was answered with it.
C20_SuccessImpliesRecorded ==
    impl = "sqlite" =>
        \A r \in Rid :
            Confirmed(r) =>
                /\ Stored(r)
                /\ reqs[r].resp[1].sid = reqs[r].msg.id
                /\ reqs[r].msg.direction = "outbound"
                /\ reqs[r].msg \in Range(getThread(messages, reqs[r].to))
                /\ \A q \in Rid :
                      (/\ reqs[q].route = "messages" /\ Done(q)
                       /\ reqs[q].resp[1].status = 200
                       /\ r \in reqs[q].seen
                       /\ normalizePhone(reqs[q].to) = reqs[r].msg.to)
                      => reqs[r].msg \in Range(reqs[q].rows)

\* A send was confirmed, then the thread of its destination was asked for and
\* answered with the outbound record.
C20_Witness ==
    /\ impl = "sqlite"
    /\ \E q, r \in Rid :
          /\ Confirmed(r)
          /\ reqs[q].route = "messages" /\ Done(q)
          /\ r \in reqs[q].seen
          /\ normalizePhone(reqs[q].to) = reqs[r].msg.to
          /\ reqs[q].rows = <<reqs[r].msg>>

============================================================================
